---- MODULE Spec2Model ----
(***************************************************************************)
(* Model of package fquic's Conn (conn.go): the stream-acceptance          *)
(* multiplexer started by newConn, AcceptStream, Close/CloseWithError and  *)
(* NewStream, and of the Dialer that resolves the TLS configuration and    *)
(* establishes the session a Conn is built on.                             *)
(*                                                                         *)
(* Goroutines of one Conn:                                                 *)
(*   - acceptStreams (the coordinating task, variable main),               *)
(*   - the task waiting on c.done (variable watcher),                      *)
(*   - the two errgroup tasks, one per stream kind (variable loop),        *)
(*   - callers of AcceptStream (variable pc),                              *)
(*   - callers of Close / CloseWithError (variable closerPc).              *)
(* The quic.Session is an external collaborator: its accept calls return   *)
(* a stream, fail on their own, or fail because the context is done or the *)
(* session was closed.                                                     *)
(***************************************************************************)
EXTENDS Naturals, Sequences, FiniteSets

\* ---------------------------------------------------------------- bounds
MaxStreams == 2
NumCallers == 2
NumClosers == 2
\* Callers of Close/CloseWithError in the specifications that state fairness.
LiveClosers == 1

Kinds == {"bidi", "uni"}
Callers == 1..NumCallers

\* ---------------------------------------------------------------- values
Nil == "nil"
Canceled == "context canceled"
\* The error a failing session accept of kind k returns when the failure is
\* the session's own (transport failure, session closed). Its value is
\* opaque to the Conn; the two loops get distinguishable ones.
SessErr(k) == IF k = "bidi" THEN "bidi accept error" ELSE "uni accept error"

NilHandle == [kind |-> "none", n |-> 0]
Handle(k, i) == [kind |-> k, n |-> i]
NilStream == [send |-> NilHandle, recv |-> NilHandle]

\* newStream(c, s, r): the Stream wrapping a send side and a receive side.
newStream(s, r) == [send |-> s, recv |-> r]

\* Variant: the unidirectional loop wraps its handle as both sides.
WrapBothSides(k, h) == newStream(h, h)

\* The Stream each accept loop builds from the handle its accept returned.
Wrap(k, h) == IF k = "bidi" THEN newStream(h, h) ELSE newStream(NilHandle, h)

Other(k) == IF k = "bidi" THEN "uni" ELSE "bidi"

\* ---------------------------------------------------------------- Dialer
\* Longest NextProtos list of a caller's TLS configuration.
MaxProtos == 2
\* Dial operations made on one Dialer.
MaxDials == 2
\* NewStream calls made on one Conn.
MaxOpens == 2

Protos == {"h3-test", "h3"}
SeqsUpTo(S, n) == UNION {[1..m -> S] : m \in 0..n}

\* A *tls.Config, as far as the Dialer looks at it: nil, or its NextProtos.
NilConfig == [isNil |-> TRUE, NextProtos |-> <<>>]
Config(protos) == [isNil |-> FALSE, NextProtos |-> protos]

\* The Dialers a caller can build: TLSConfig nil or with any NextProtos,
\* Protocol empty or set. QuicConfig is handed on untouched.
Dialers ==
  [TLSConfig : {NilConfig} \cup {Config(l) : l \in SeqsUpTo(Protos, MaxProtos)},
   Protocol : {""} \cup Protos]

DialOps == {"Dial", "DialContext", "Client", "ClientContext"}

\* Variant: an empty negotiation list is let through.
tlsConfigLenient(d) ==
  LET conf == IF d.TLSConfig.isNil THEN Config(<<>>) ELSE d.TLSConfig
      resolved == IF d.Protocol # ""
                  THEN Config(<<d.Protocol>> \o conf.NextProtos)
                  ELSE conf
  IN [panics |-> FALSE, conf |-> resolved, d |-> d]

\* Variant: Protocol is added after the caller's list.
tlsConfigAppending(d) ==
  LET conf == IF d.TLSConfig.isNil THEN Config(<<>>) ELSE d.TLSConfig
      resolved == IF d.Protocol # ""
                  THEN Config(conf.NextProtos \o <<d.Protocol>>)
                  ELSE conf
  IN [panics |-> Len(resolved.NextProtos) = 0, conf |-> resolved, d |-> d]

\* d.tlsConfig(): the configuration handed to the session establishment, or
\* a panic. It works on a clone (a fresh Config for a nil TLSConfig) and
\* append builds a new list, so the Dialer d itself is left as it was.
tlsConfig(d) ==
  LET conf == IF d.TLSConfig.isNil THEN Config(<<>>) ELSE d.TLSConfig
      resolved == IF d.Protocol # ""
                  THEN Config(<<d.Protocol>> \o conf.NextProtos)
                  ELSE conf
  IN [panics |-> Len(resolved.NextProtos) = 0, conf |-> resolved, d |-> d]

\* The dial operation before any call, and the one that made a Conn out of
\* a Dialer with only Protocol set.
NoDial ==
  [pc |-> "idle", op |-> "none", conf |-> <<>>, calls |-> 0, invoked |-> 0,
   conns |-> 0]
Dialed ==
  [pc |-> "connected", op |-> "DialContext", conf |-> <<"h3-test">>,
   calls |-> 1, invoked |-> 1, conns |-> 1]

\* The error of a failing session.OpenStream / OpenUniStream, and NewStream's
\* outcome before any call.
OpenErr == "open error"
NoOpens == [calls |-> 0, streams |-> 0, ret |-> <<NilStream, Nil>>]

VARIABLES
  streamsClosed,  \* c.streams has been closed
  streamsCloses,  \* number of close(c.streams) executed
  held,           \* per loop: the Stream it is sending on c.streams
  streamErr,      \* c.streamErr
  streamLock,     \* c.streamLock: [writer, readers]
  closer,         \* c.closer has fired
  done,           \* c.done has been closed
  doneCloses,     \* number of close(c.done) executed
  cancelled,      \* cancel() of the context made at line 45 was called
  egCancelled,    \* the errgroup cancelled its derived context
  egErr,          \* the errgroup's first error
  loop,           \* per loop: "accept", "failed", "send", "done"
  loopErr,        \* per loop: the error its session accept returned
  main,           \* acceptStreams: "wait","lock","write","unlock","cancel","close","done"
  watcher,        \* the goroutine of lines 48-51: "wait", "exit"
  sessClosed,     \* the session was closed
  sessCloses,     \* number of session.CloseWithError calls made
  produced,       \* per kind: handles the session's accept returned, in order
  pc,             \* per caller: "idle", "select", "rlock", "read"
  ctx,            \* per caller, during a call: "live", "precancelled", "cancelled"
  delivered,      \* per kind: Streams received from c.streams, in order
  closerPc,       \* callers of Close/CloseWithError per position: [idle, session]
  firstFailed,    \* while no error is recorded: the loop whose accept failed first
  cancelOffer,    \* loops whose offer stands since the last cancelled return
  dialer,         \* the Dialer: [TLSConfig, Protocol]
  dial,           \* the dial operation: [pc, op, conf, calls, invoked, conns]
  opened          \* NewStream: [calls, streams, ret], ret the last return values

vars == <<streamsClosed, streamsCloses, held, streamErr, streamLock, closer,
          done, doneCloses, cancelled, egCancelled, egErr, loop, loopErr,
          main, watcher, sessClosed, sessCloses, produced, pc, ctx,
          delivered, closerPc, firstFailed, cancelOffer, dialer, dial,
          opened>>

muxVars == <<streamsClosed, streamsCloses, held, streamErr, streamLock,
             cancelled, egCancelled, egErr, loop, loopErr, main, watcher,
             produced, delivered, firstFailed>>
closeVars == <<closer, done, doneCloses, sessClosed, sessCloses, closerPc>>
callVars == <<pc, ctx, cancelOffer>>
\* What the multiplexer, Close and AcceptStream never touch: the Dialer, the
\* dial operation that made the Conn, and the outcome of NewStream calls.
envVars == <<dialer, dial, opened>>
connVars == <<muxVars, closeVars, callVars>>

\* The context the two loops pass to the session: derived by the errgroup
\* from the context of line 45.
CtxDone == cancelled \/ egCancelled

\* The loops currently offering a Stream on c.streams.
Offering == {k \in Kinds : loop[k] = "send"}

\* newConn: the Conn after construction, with acceptStreams started;
\* nClosers callers may call Close/CloseWithError.
newConn(nClosers) ==
  /\ streamsClosed = FALSE
  /\ streamsCloses = 0
  /\ held = [k \in Kinds |-> NilStream]
  /\ streamErr = Nil
  /\ streamLock = [writer |-> FALSE, readers |-> 0]
  /\ closer = FALSE
  /\ done = FALSE
  /\ doneCloses = 0
  /\ cancelled = FALSE
  /\ egCancelled = FALSE
  /\ egErr = Nil
  /\ loop = [k \in Kinds |-> "accept"]
  /\ loopErr = [k \in Kinds |-> Nil]
  /\ main = "wait"
  /\ watcher = "wait"
  /\ sessClosed = FALSE
  /\ sessCloses = 0
  /\ produced = [k \in Kinds |-> <<>>]
  /\ pc = [c \in Callers |-> "idle"]
  /\ ctx = [c \in Callers |-> "live"]
  /\ delivered = [k \in Kinds |-> <<>>]
  /\ closerPc = [idle |-> nClosers, session |-> 0]
  /\ firstFailed = Nil
  /\ cancelOffer = {}

\* A Conn returned by a successful dial; no NewStream call was made yet.
InitWith(nClosers) ==
  /\ newConn(nClosers)
  /\ dialer = [TLSConfig |-> NilConfig, Protocol |-> "h3-test"]
  /\ dial = Dialed
  /\ opened = NoOpens

Init == InitWith(NumClosers)

\* ------------------------------------------------------- the accept loops

\* Variant: the loop accepts the next stream while it still holds one, as
\* it could if its send did not wait for a receiver.
SessionAcceptStreamAhead(k) ==
  /\ loop[k] \in {"accept", "send"}
  /\ ~sessClosed
  /\ Len(produced[k]) < MaxStreams
  /\ LET h == Handle(k, Len(produced[k]) + 1) IN
       /\ produced' = [produced EXCEPT ![k] = Append(@, h)]
       /\ held' = [held EXCEPT ![k] = Wrap(k, h)]
  /\ loop' = [loop EXCEPT ![k] = "send"]
  /\ UNCHANGED <<streamsClosed, streamsCloses, streamErr, streamLock,
                 cancelled, egCancelled, egErr, loopErr, main, watcher,
                 delivered, firstFailed>>
  /\ UNCHANGED <<closeVars, callVars>>
  /\ UNCHANGED envVars

\* session.AcceptStream / AcceptUniStream returns the next stream of kind k;
\* the loop wraps it and goes on to send it on c.streams.
SessionAcceptStream(k) ==
  /\ loop[k] = "accept"
  /\ ~sessClosed
  /\ Len(produced[k]) < MaxStreams
  /\ LET h == Handle(k, Len(produced[k]) + 1) IN
       /\ produced' = [produced EXCEPT ![k] = Append(@, h)]
       /\ held' = [held EXCEPT ![k] = Wrap(k, h)]
  /\ loop' = [loop EXCEPT ![k] = "send"]
  /\ UNCHANGED <<streamsClosed, streamsCloses, streamErr, streamLock,
                 cancelled, egCancelled, egErr, loopErr, main, watcher,
                 delivered, firstFailed>>
  /\ UNCHANGED <<closeVars, callVars>>
  /\ UNCHANGED envVars

\* The loop's accept call returned err # nil.
AcceptFailed(k, e) ==
  /\ loop[k] = "accept"
  /\ loop' = [loop EXCEPT ![k] = "failed"]
  /\ loopErr' = [loopErr EXCEPT ![k] = e]
  /\ firstFailed' = IF firstFailed = Nil /\ egErr = Nil THEN k ELSE firstFailed
  /\ UNCHANGED <<streamsClosed, streamsCloses, held, streamErr, streamLock,
                 cancelled, egCancelled, egErr, main, watcher, produced,
                 delivered>>
  /\ UNCHANGED <<closeVars, callVars>>
  /\ UNCHANGED envVars

\* The session's accept fails on its own, at any time.
SessionAcceptFail(k) ==
  AcceptFailed(k, SessErr(k))

\* Variant: the loop also gives up a Stream it is sending when its context
\* is done (a send that selects on ctx.Done()).
SessionAcceptCanceledOrSendAborted(k) ==
  /\ CtxDone
  /\ loop[k] \in {"accept", "send"}
  /\ loop' = [loop EXCEPT ![k] = "failed"]
  /\ loopErr' = [loopErr EXCEPT ![k] = Canceled]
  /\ held' = [held EXCEPT ![k] = NilStream]
  /\ firstFailed' = IF firstFailed = Nil /\ egErr = Nil THEN k ELSE firstFailed
  /\ UNCHANGED <<streamsClosed, streamsCloses, streamErr, streamLock,
                 cancelled, egCancelled, egErr, main, watcher, produced,
                 delivered>>
  /\ UNCHANGED <<closeVars, callVars>>
  /\ UNCHANGED envVars

\* The session's accept honours the cancellation of its context.
SessionAcceptCanceled(k) ==
  /\ CtxDone
  /\ AcceptFailed(k, Canceled)

\* The session's accept fails because the session was closed.
SessionAcceptClosed(k) ==
  /\ sessClosed
  /\ AcceptFailed(k, SessErr(k))

\* Variant: the group keeps the last error instead of the first.
LoopReturnLast(k) ==
  /\ loop[k] = "failed"
  /\ loop' = [loop EXCEPT ![k] = "done"]
  /\ egErr' = loopErr[k]
  /\ egCancelled' = TRUE
  /\ firstFailed' = Nil
  /\ UNCHANGED <<streamsClosed, streamsCloses, held, streamErr, streamLock,
                 cancelled, loopErr, main, watcher, produced, delivered>>
  /\ UNCHANGED <<closeVars, callVars>>
  /\ UNCHANGED envVars

\* return err: the errgroup records the first error and cancels its context.
LoopReturn(k) ==
  /\ loop[k] = "failed"
  /\ loop' = [loop EXCEPT ![k] = "done"]
  /\ egErr' = IF egErr = Nil THEN loopErr[k] ELSE egErr
  /\ egCancelled' = TRUE
  /\ firstFailed' = Nil
  /\ UNCHANGED <<streamsClosed, streamsCloses, held, streamErr, streamLock,
                 cancelled, loopErr, main, watcher, produced, delivered>>
  /\ UNCHANGED <<closeVars, callVars>>
  /\ UNCHANGED envVars

\* ------------------------------------------------------- acceptStreams

\* <-c.done; cancel()
WatcherCancel ==
  /\ watcher = "wait"
  /\ done
  /\ watcher' = "exit"
  /\ cancelled' = TRUE
  /\ UNCHANGED <<streamsClosed, streamsCloses, held, streamErr, streamLock,
                 egCancelled, egErr, loop, loopErr, main, produced,
                 delivered, firstFailed>>
  /\ UNCHANGED <<closeVars, callVars>>
  /\ UNCHANGED envVars

\* Variant: c.streams is closed when Wait returns, ahead of the recording
\* of the error, instead of by the deferred call.
JoinWaitClosing ==
  /\ main = "wait"
  /\ \A k \in Kinds : loop[k] = "done"
  /\ egCancelled' = TRUE
  /\ streamsClosed' = TRUE
  /\ streamsCloses' = streamsCloses + 1
  /\ main' = IF egErr # Nil THEN "lock" ELSE "cancel"
  /\ UNCHANGED <<held, streamErr, streamLock, cancelled, egErr, loop, loopErr,
                 watcher, produced, delivered, firstFailed>>
  /\ UNCHANGED <<closeVars, callVars>>
  /\ UNCHANGED envVars

\* Variant: Wait returns as soon as one loop has returned.
JoinWaitFirst ==
  /\ main = "wait"
  /\ \E k \in Kinds : loop[k] = "done"
  /\ egCancelled' = TRUE
  /\ main' = IF egErr # Nil THEN "lock" ELSE "cancel"
  /\ UNCHANGED <<streamsClosed, streamsCloses, held, streamErr, streamLock,
                 cancelled, egErr, loop, loopErr, watcher, produced,
                 delivered, firstFailed>>
  /\ UNCHANGED <<closeVars, callVars>>
  /\ UNCHANGED envVars

\* err := eg.Wait(): both loops have returned; Wait cancels the group's
\* context and yields the first error.
JoinWait ==
  /\ main = "wait"
  /\ \A k \in Kinds : loop[k] = "done"
  /\ egCancelled' = TRUE
  /\ main' = IF egErr # Nil THEN "lock" ELSE "cancel"
  /\ UNCHANGED <<streamsClosed, streamsCloses, held, streamErr, streamLock,
                 cancelled, egErr, loop, loopErr, watcher, produced,
                 delivered, firstFailed>>
  /\ UNCHANGED <<closeVars, callVars>>
  /\ UNCHANGED envVars

\* c.streamLock.Lock()
MainLock ==
  /\ main = "lock"
  /\ ~streamLock.writer
  /\ streamLock.readers = 0
  /\ streamLock' = [streamLock EXCEPT !.writer = TRUE]
  /\ main' = "write"
  /\ UNCHANGED <<streamsClosed, streamsCloses, held, streamErr, cancelled,
                 egCancelled, egErr, loop, loopErr, watcher, produced,
                 delivered, firstFailed>>
  /\ UNCHANGED <<closeVars, callVars>>
  /\ UNCHANGED envVars

\* Variant: the error is not recorded.
MainWriteNone ==
  /\ main = "write"
  /\ main' = "unlock"
  /\ UNCHANGED <<streamsClosed, streamsCloses, held, streamErr, streamLock,
                 cancelled, egCancelled, egErr, loop, loopErr, watcher,
                 produced, delivered, firstFailed>>
  /\ UNCHANGED <<closeVars, callVars>>
  /\ UNCHANGED envVars

\* c.streamErr = err
MainWrite ==
  /\ main = "write"
  /\ streamErr' = egErr
  /\ main' = "unlock"
  /\ UNCHANGED <<streamsClosed, streamsCloses, held, streamLock, cancelled,
                 egCancelled, egErr, loop, loopErr, watcher, produced,
                 delivered, firstFailed>>
  /\ UNCHANGED <<closeVars, callVars>>
  /\ UNCHANGED envVars

\* deferred c.streamLock.Unlock()
MainUnlock ==
  /\ main = "unlock"
  /\ streamLock' = [streamLock EXCEPT !.writer = FALSE]
  /\ main' = "cancel"
  /\ UNCHANGED <<streamsClosed, streamsCloses, held, streamErr, cancelled,
                 egCancelled, egErr, loop, loopErr, watcher, produced,
                 delivered, firstFailed>>
  /\ UNCHANGED <<closeVars, callVars>>
  /\ UNCHANGED envVars

\* deferred cancel()
MainCancel ==
  /\ main = "cancel"
  /\ cancelled' = TRUE
  /\ main' = "close"
  /\ UNCHANGED <<streamsClosed, streamsCloses, held, streamErr, streamLock,
                 egCancelled, egErr, loop, loopErr, watcher, produced,
                 delivered, firstFailed>>
  /\ UNCHANGED <<closeVars, callVars>>
  /\ UNCHANGED envVars

\* Variant: acceptStreams returns without closing c.streams.
MainCloseSkipped ==
  /\ main = "close"
  /\ main' = "done"
  /\ UNCHANGED <<streamsClosed, streamsCloses, held, streamErr, streamLock,
                 cancelled, egCancelled, egErr, loop, loopErr, watcher,
                 produced, delivered, firstFailed>>
  /\ UNCHANGED <<closeVars, callVars>>
  /\ UNCHANGED envVars

\* deferred close(c.streams)
MainClose ==
  /\ main = "close"
  /\ streamsClosed' = TRUE
  /\ streamsCloses' = streamsCloses + 1
  /\ main' = "done"
  /\ UNCHANGED <<held, streamErr, streamLock, cancelled, egCancelled, egErr,
                 loop, loopErr, watcher, produced, delivered, firstFailed>>
  /\ UNCHANGED <<closeVars, callVars>>
  /\ UNCHANGED envVars

\* ------------------------------------------------------- CloseWithError

\* Variant: close(c.done) is executed by every call, without the Once.
CloseWithErrorUnguarded ==
  /\ closerPc.idle > 0
  /\ closerPc' = [idle |-> closerPc.idle - 1, session |-> closerPc.session + 1]
  /\ closer' = TRUE
  /\ done' = TRUE
  /\ doneCloses' = doneCloses + 1
  /\ UNCHANGED <<sessClosed, sessCloses>>
  /\ UNCHANGED <<muxVars, callVars>>
  /\ UNCHANGED envVars

\* Close() is CloseWithError(0, ""); the code and the description are only
\* forwarded to the session and touch no state of the Conn, so one action
\* stands for both, and the callers are told apart only by their position.
\* A caller that has not called yet calls: c.closer.Do(func() { close(c.done) })
CloseWithError ==
  /\ closerPc.idle > 0
  /\ closerPc' = [idle |-> closerPc.idle - 1, session |-> closerPc.session + 1]
  /\ closer' = TRUE
  /\ done' = IF closer THEN done ELSE TRUE
  /\ doneCloses' = IF closer THEN doneCloses ELSE doneCloses + 1
  /\ UNCHANGED <<sessClosed, sessCloses>>
  /\ UNCHANGED <<muxVars, callVars>>
  /\ UNCHANGED envVars

\* return c.session.CloseWithError(code, desc)
SessionCloseWithError ==
  /\ closerPc.session > 0
  /\ closerPc' = [closerPc EXCEPT !.session = @ - 1]
  /\ sessCloses' = sessCloses + 1
  /\ sessClosed' = TRUE
  /\ UNCHANGED <<closer, done, doneCloses>>
  /\ UNCHANGED <<muxVars, callVars>>
  /\ UNCHANGED envVars

\* ------------------------------------------------------- AcceptStream

\* A caller enters AcceptStream(ctx) and reaches the select of line 103.
Call(c, precancelled) ==
  /\ pc[c] = "idle"
  /\ pc' = [pc EXCEPT ![c] = "select"]
  /\ ctx' = [ctx EXCEPT ![c] = IF precancelled THEN "precancelled" ELSE "live"]
  /\ UNCHANGED cancelOffer
  /\ UNCHANGED <<muxVars, closeVars>>
  /\ UNCHANGED envVars

\* The caller's context is cancelled while the call is blocked.
CancelCtx(c) ==
  /\ pc[c] = "select"
  /\ ctx[c] = "live"
  /\ ctx' = [ctx EXCEPT ![c] = "cancelled"]
  /\ UNCHANGED <<pc, cancelOffer>>
  /\ UNCHANGED <<muxVars, closeVars>>
  /\ UNCHANGED envVars

\* Variant: the cancelled call takes a Stream on offer and discards it.
ReturnCancelledConsuming(c) ==
  /\ pc[c] = "select"
  /\ ctx[c] # "live"
  /\ pc' = [pc EXCEPT ![c] = "idle"]
  /\ ctx' = [ctx EXCEPT ![c] = "live"]
  /\ \/ /\ Offering = {}
        /\ UNCHANGED <<held, loop>>
     \/ \E k \in Offering :
          /\ held' = [held EXCEPT ![k] = NilStream]
          /\ loop' = [loop EXCEPT ![k] = "accept"]
  /\ cancelOffer' = Offering
  /\ UNCHANGED <<streamsClosed, streamsCloses, streamErr, streamLock,
                 cancelled, egCancelled, egErr, loopErr, main, watcher,
                 produced, delivered, firstFailed>>
  /\ UNCHANGED closeVars
  /\ UNCHANGED envVars

\* Variant: the call's cancellation is propagated to the accept loops.
ReturnCancelledCancelling(c) ==
  /\ pc[c] = "select"
  /\ ctx[c] # "live"
  /\ pc' = [pc EXCEPT ![c] = "idle"]
  /\ ctx' = [ctx EXCEPT ![c] = "live"]
  /\ cancelOffer' = Offering
  /\ cancelled' = TRUE
  /\ UNCHANGED <<streamsClosed, streamsCloses, held, streamErr, streamLock,
                 egCancelled, egErr, loop, loopErr, main, watcher, produced,
                 delivered, firstFailed>>
  /\ UNCHANGED closeVars
  /\ UNCHANGED envVars

\* case <-ctx.Done(): return nil, ctx.Err()
ReturnCancelled(c) ==
  /\ pc[c] = "select"
  /\ ctx[c] # "live"
  /\ pc' = [pc EXCEPT ![c] = "idle"]
  /\ cancelOffer' = Offering
  /\ ctx' = [ctx EXCEPT ![c] = "live"]
  /\ UNCHANGED <<muxVars, closeVars>>
  /\ UNCHANGED envVars

\* Variant: the caller gets the Stream but the send of loop k stays pending.
ReceiveDuplicating(c, k) ==
  /\ pc[c] = "select"
  /\ loop[k] = "send"
  /\ ~streamsClosed
  /\ pc' = [pc EXCEPT ![c] = "idle"]
  /\ delivered' = [delivered EXCEPT ![k] = Append(@, held[k])]
  /\ cancelOffer' = {}
  /\ ctx' = [ctx EXCEPT ![c] = "live"]
  /\ UNCHANGED <<streamsClosed, streamsCloses, held, streamErr, streamLock,
                 cancelled, egCancelled, egErr, loop, loopErr, main, watcher,
                 produced, firstFailed>>
  /\ UNCHANGED closeVars
  /\ UNCHANGED envVars

\* case s, ok := <-c.streams with ok: the rendezvous of caller c with the
\* send of loop k (lines 62/73); return s, nil. The select takes any ready
\* case, so a done context does not exclude this one.
Receive(c, k) ==
  /\ pc[c] = "select"
  /\ loop[k] = "send"
  /\ ~streamsClosed
  /\ pc' = [pc EXCEPT ![c] = "idle"]
  /\ delivered' = [delivered EXCEPT ![k] = Append(@, held[k])]
  /\ held' = [held EXCEPT ![k] = NilStream]
  /\ loop' = [loop EXCEPT ![k] = "accept"]
  /\ cancelOffer' = {}
  /\ ctx' = [ctx EXCEPT ![c] = "live"]
  /\ UNCHANGED <<streamsClosed, streamsCloses, streamErr, streamLock,
                 cancelled, egCancelled, egErr, loopErr, main, watcher,
                 produced, firstFailed>>
  /\ UNCHANGED closeVars
  /\ UNCHANGED envVars

\* case s, ok := <-c.streams with !ok: the channel is closed.
ObserveClosed(c) ==
  /\ pc[c] = "select"
  /\ streamsClosed
  /\ pc' = [pc EXCEPT ![c] = "rlock"]
  /\ UNCHANGED <<ctx, cancelOffer>>
  /\ UNCHANGED <<muxVars, closeVars>>
  /\ UNCHANGED envVars

\* c.streamLock.RLock()
RLock(c) ==
  /\ pc[c] = "rlock"
  /\ ~streamLock.writer
  /\ streamLock' = [streamLock EXCEPT !.readers = @ + 1]
  /\ pc' = [pc EXCEPT ![c] = "read"]
  /\ UNCHANGED <<ctx, cancelOffer>>
  /\ UNCHANGED <<streamsClosed, streamsCloses, held, streamErr, cancelled,
                 egCancelled, egErr, loop, loopErr, main, watcher, produced,
                 delivered, firstFailed>>
  /\ UNCHANGED closeVars
  /\ UNCHANGED envVars

\* return nil, c.streamErr (and the deferred RUnlock)
ReadReturn(c) ==
  /\ pc[c] = "read"
  /\ streamLock' = [streamLock EXCEPT !.readers = @ - 1]
  /\ pc' = [pc EXCEPT ![c] = "idle"]
  /\ ctx' = [ctx EXCEPT ![c] = "live"]
  /\ UNCHANGED cancelOffer
  /\ UNCHANGED <<streamsClosed, streamsCloses, held, streamErr, cancelled,
                 egCancelled, egErr, loop, loopErr, main, watcher, produced,
                 delivered, firstFailed>>
  /\ UNCHANGED closeVars
  /\ UNCHANGED envVars

\* The (stream, err) pair each return statement of AcceptStream yields.
RetCancelled == <<NilStream, Canceled>>
RetStream(k) == <<held[k], Nil>>
RetClosed == <<NilStream, streamErr>>

\* Caller c's AcceptStream call returns r in this step.
Returns(c, r) ==
  \/ ReturnCancelled(c) /\ r = RetCancelled
  \/ \E k \in Kinds : Receive(c, k) /\ r = RetStream(k)
  \/ ReadReturn(c) /\ r = RetClosed

\* ------------------------------------------------------- specifications

LoopStep ==
  \E k \in Kinds :
    \/ SessionAcceptStream(k)
    \/ SessionAcceptFail(k)
    \/ SessionAcceptCanceled(k)
    \/ SessionAcceptClosed(k)
    \/ LoopReturn(k)

MainStep ==
  \/ WatcherCancel
  \/ JoinWait
  \/ MainLock
  \/ MainWrite
  \/ MainUnlock
  \/ MainCancel
  \/ MainClose

CloseStep ==
  \/ CloseWithError
  \/ SessionCloseWithError

CallStep ==
  \E c \in Callers :
    \/ \E b \in BOOLEAN : Call(c, b)
    \/ CancelCtx(c)
    \/ ReturnCancelled(c)
    \/ \E k \in Kinds : Receive(c, k)
    \/ ObserveClosed(c)
    \/ RLock(c)
    \/ ReadReturn(c)

Next == LoopStep \/ MainStep \/ CloseStep \/ CallStep

Spec == Init /\ [][Next]_vars

\* The same Conn with LiveClosers callers of Close/CloseWithError.
LiveInit == InitWith(LiveClosers)

\* What the Go scheduler and the session guarantee: every goroutine that can
\* take its next step takes it, a blocked send and a blocked receive on
\* c.streams meet, and the session's accept honours a done context and a
\* closed session. Nobody is obliged to call AcceptStream or Close, and the
\* session need neither produce streams nor fail on its own.
ProgramFairness ==
  /\ \A k \in Kinds :
       /\ WF_vars(SessionAcceptCanceled(k))
       /\ WF_vars(SessionAcceptClosed(k))
       /\ WF_vars(LoopReturn(k))
  /\ WF_vars(MainStep)
  /\ WF_vars(SessionCloseWithError)
  /\ WF_vars(\E c \in Callers : \E k \in Kinds : Receive(c, k))
  /\ \A c \in Callers :
       /\ WF_vars(ReturnCancelled(c))
       /\ WF_vars(ObserveClosed(c))
       /\ WF_vars(RLock(c))
       /\ WF_vars(ReadReturn(c))

FairSpec == LiveInit /\ [][Next]_vars /\ ProgramFairness

\* FairSpec with a consumer that keeps calling AcceptStream with a live
\* context; c.streams serves its blocked senders in arrival order, so the
\* send of each loop is met whenever receivers keep arriving.
ConsumerSpec ==
  /\ FairSpec
  /\ SF_vars(\E c \in Callers : Call(c, FALSE))
  /\ \A k \in Kinds : SF_vars(\E c \in Callers : Receive(c, k))

\* ------------------------------------------------------- properties

\* ------------------------------------------------------- NewStream

\* Variant: a failed open also fires the close signal of the Conn.
NewStreamFailureCloses(unidirectional, ok) ==
  /\ opened.calls < MaxOpens
  /\ ok => ~sessClosed
  /\ opened' = [calls |-> opened.calls + 1,
                streams |-> IF ok THEN opened.streams + 1 ELSE opened.streams,
                ret |-> IF ~ok THEN <<NilStream, OpenErr>>
                        ELSE LET s == Handle("out", opened.streams + 1)
                             IN IF unidirectional
                                THEN <<newStream(s, NilHandle), Nil>>
                                ELSE <<newStream(s, s), Nil>>]
  /\ closer' = (closer \/ ~ok)
  /\ done' = (done \/ ~ok)
  /\ UNCHANGED <<doneCloses, sessClosed, sessCloses, closerPc>>
  /\ UNCHANGED <<muxVars, callVars, dialer, dial>>

\* c.NewStream(unidirectional): session.OpenUniStream() or OpenStream()
\* fails (always so on a closed session) and the error is returned, or it
\* yields a stream that is wrapped and returned.
NewStream(unidirectional, ok) ==
  /\ opened.calls < MaxOpens
  /\ ok => ~sessClosed
  /\ opened' = [calls |-> opened.calls + 1,
                streams |-> IF ok THEN opened.streams + 1 ELSE opened.streams,
                ret |-> IF ~ok THEN <<NilStream, OpenErr>>
                        ELSE LET s == Handle("out", opened.streams + 1)
                             IN IF unidirectional
                                THEN <<newStream(s, NilHandle), Nil>>
                                ELSE <<newStream(s, s), Nil>>]
  /\ UNCHANGED <<connVars, dialer, dial>>

OpenStep == \E unidirectional \in BOOLEAN, ok \in BOOLEAN :
              NewStream(unidirectional, ok)

\* The Conn with callers of NewStream beside those of AcceptStream and Close.
OpenNext == Next \/ OpenStep
OpenSpec == LiveInit /\ [][OpenNext]_vars

\* ------------------------------------------------------- Dialer

\* A dial operation is called. Dial and Client pass context.Background() to
\* DialContext and ClientContext, which evaluate d.tlsConfig() as an argument
\* of quic.DialAddrContext / quic.DialContext: a panic there unwinds before
\* the establishment is invoked; otherwise it is invoked with the result.
DialCall(op) ==
  /\ dial.pc = "idle"
  /\ dial.calls < MaxDials
  /\ LET r == tlsConfig(dialer)
     IN /\ dialer' = r.d
        /\ dial' = IF r.panics
                   THEN [dial EXCEPT !.pc = "panicked", !.op = op,
                                     !.calls = @ + 1]
                   ELSE [dial EXCEPT !.pc = "establishing", !.op = op,
                                     !.calls = @ + 1, !.invoked = @ + 1,
                                     !.conf = r.conf.NextProtos]
  /\ UNCHANGED <<connVars, opened>>

\* The establishment returns: an error, handed to the caller, or a session,
\* on which newConn builds the Conn.
EstablishReturn(ok) ==
  /\ dial.pc = "establishing"
  /\ dial' = IF ok
             THEN [dial EXCEPT !.pc = "connected", !.conns = @ + 1]
             ELSE [dial EXCEPT !.pc = "failed"]
  /\ UNCHANGED <<connVars, dialer, opened>>

\* The dial operation has returned to its caller, who may dial again.
DialReturn ==
  /\ dial.pc \in {"failed", "connected"}
  /\ dial' = [dial EXCEPT !.pc = "idle", !.op = "none", !.conf = <<>>]
  /\ UNCHANGED <<connVars, dialer, opened>>

\* Any Dialer a caller can build, before its first dial operation. The
\* variables of the Conn stand at the values newConn gives them.
DialInit ==
  /\ newConn(NumClosers)
  /\ dialer \in Dialers
  /\ dial = NoDial
  /\ opened = NoOpens

DialNext ==
  \/ \E op \in DialOps : DialCall(op)
  \/ \E ok \in BOOLEAN : EstablishReturn(ok)
  \/ DialReturn

DialSpec == DialInit /\ [][DialNext]_vars

\* ------------------------------------------------------- properties

IsPrefix(s, t) == Len(s) <= Len(t) /\ \A i \in 1..Len(s) : s[i] = t[i]

\* The Streams of kind k the session has produced, wrapped, in order.
ProducedStreams(k) == [i \in 1..Len(produced[k]) |-> Wrap(k, produced[k][i])]

\* C1: for each kind, the Streams AcceptStream calls have received are a
\* prefix of the Streams the session produced of that kind: none twice, none
\* out of order, none skipped.
C1_DeliveredIsPrefix ==
  \A k \in Kinds : IsPrefix(delivered[k], ProducedStreams(k))

\* Both kinds interleaved, two Streams of one kind received in order.
C1_Witness ==
  \E k \in Kinds :
    /\ Len(delivered[k]) = 2
    /\ Len(delivered[Other(k)]) >= 1
    /\ delivered[k][1] # delivered[k][2]

\* C2: with a consumer that keeps calling AcceptStream with a live context,
\* every Stream an accept loop obtained from the session and holds for the
\* intake is eventually received by an AcceptStream call (the loop is back
\* in its accept and everything produced of its kind has been delivered),
\* whatever happens to the connection or to the sibling loop meanwhile.
C2_EveryStreamDelivered ==
  \A k \in Kinds :
    (loop[k] = "send")
      ~> (loop[k] = "accept" /\ delivered[k] = ProducedStreams(k))

\* A loop holds a Stream while the connection is closed and its sibling has
\* already terminated, and a caller with a live context is waiting.
C2_Witness ==
  \E k \in Kinds : \E c \in Callers :
    /\ done /\ CtxDone
    /\ loop[k] = "send"
    /\ loop[Other(k)] = "done"
    /\ pc[c] = "select" /\ ctx[c] = "live"

\* Caller c's call ends in this step.
CallEnds(c) == pc[c] # "idle" /\ pc'[c] = "idle"

\* C3 as stated: once Close/CloseWithError has closed c.done, every
\* AcceptStream call that returns (here: even only those whose own context
\* is live) returns the terminal indication (nil, c.streamErr).
C3_Original ==
  [][\A c \in Callers :
       (done /\ ctx[c] = "live" /\ CallEnds(c)) => Returns(c, RetClosed)]_vars

\* C3 amended: after Close/CloseWithError every AcceptStream call that is
\* blocked or started afterwards eventually returns; with a live context it
\* returns either a Stream an accept loop had obtained from the session or,
\* once the intake is closed, the terminal indication (nil with the non-nil
\* recorded error), which never changes afterwards.
C3_Amended ==
  /\ \A c \in Callers : (done /\ pc[c] # "idle") ~> (pc[c] = "idle")
  /\ [][\A c \in Callers :
          (done /\ ctx[c] = "live" /\ CallEnds(c)) =>
             \/ /\ streamsClosed
                /\ Returns(c, RetClosed)
                /\ streamErr # Nil
             \/ \E k \in Kinds :
                  /\ ~streamsClosed
                  /\ Returns(c, RetStream(k))
                  /\ held[k] = Wrap(k, produced[k][Len(produced[k])])]_vars
  /\ [][streamsClosed => (streamsClosed' /\ streamErr' = streamErr)]_vars

\* After Close, a call with a live context is about to return c.streamErr.
C3_Witness ==
  \E c \in Callers : done /\ pc[c] = "read" /\ ctx[c] = "live"

\* C4 as stated: the session's close is invoked at most once, whatever the
\* number of Close/CloseWithError calls.
C4_Claim == sessCloses <= 1

\* C5 as stated: once the session accept of one loop has failed, the
\* sibling loop eventually terminates.
C5_Claim ==
  \A k \in Kinds :
    (loop[k] \in {"failed", "done"} /\ loopErr[k] = SessErr(k))
      ~> (loop[Other(k)] = "done")

\* C6 as stated: the error that gets recorded is the error of the loop
\* whose session accept failed first (so that at the closing of the intake
\* the recorded error is that loop's).
C6_Original ==
  [][\A k \in Kinds :
       (LoopReturn(k) /\ egErr = Nil) =>
          (firstFailed # Nil /\ egErr' = loopErr[firstFailed])]_vars

\* C6 amended: when the intake is closed, the recorded error is non-nil and
\* is the error the session accept of one of the two loops returned: that
\* of the loop that returned to the error group first. A loop that returns
\* before its sibling has returned gets its error recorded, and a recorded
\* error is never replaced.
C6_Amended ==
  /\ [](streamsClosed =>
          /\ streamErr # Nil
          /\ streamErr = egErr
          /\ \E k \in Kinds : streamErr = loopErr[k])
  /\ [][\A k \in Kinds :
          (LoopReturn(k) /\ loop[Other(k)] # "done") =>
             (egErr' = loopErr[k] /\ egErr' # Nil)]_vars
  /\ [][egErr # Nil => egErr' = egErr]_vars

\* The intake is closed with the session error of one loop recorded, the
\* sibling having ended with the cancellation that followed.
C6_Witness ==
  \E k \in Kinds :
    /\ streamsClosed
    /\ streamErr = SessErr(k)
    /\ loopErr[k] = SessErr(k)
    /\ loopErr[Other(k)] = Canceled

\* C7 as stated: a Stream on offer when a cancelled call returned is exactly
\* the Stream the next call with a live context receives.
C7_Original ==
  [][\A c \in Callers : \A k \in Kinds :
       (Receive(c, k) /\ ctx[c] = "live") => cancelOffer \subseteq {k}]_vars

\* C7 amended: a call that returns the cancellation failure consumes no
\* Stream; a Stream on offer at that moment stays on offer, unchanged, until
\* an AcceptStream call receives it, and the next call that receives
\* anything receives it or the Stream the sibling loop is offering.
C7_Amended ==
  /\ [][\A c \in Callers :
          ReturnCancelled(c) =>
             /\ UNCHANGED <<held, loop, delivered, produced>>
             /\ cancelOffer' = Offering]_vars
  /\ [](\A k \in cancelOffer : loop[k] = "send" /\ held[k] # NilStream)
  /\ [][\A k \in cancelOffer :
          \/ (loop'[k] = "send" /\ held'[k] = held[k])
          \/ \E c \in Callers :
               Receive(c, k) /\ delivered'[k] = Append(delivered[k], held[k])]_vars

\* A cancelled call has returned while a Stream was on offer, and a call
\* with a live context is now waiting for it.
C7_Witness ==
  \E c \in Callers :
    /\ cancelOffer # {}
    /\ pc[c] = "select" /\ ctx[c] = "live"

\* C8 as stated: a call whose context was already cancelled when it was
\* made leaves the select by the cancellation case only.
C8_Claim ==
  [][\A c \in Callers :
       (pc[c] = "select" /\ ctx[c] = "precancelled" /\ pc'[c] # "select")
          => ReturnCancelled(c)]_vars

\* C9: cancelling an AcceptStream call, and its return with the
\* cancellation failure, change nothing but that call: the loops, the
\* intake, the terminal error, the close signal and every other call are as
\* before, and an offer another blocked call could take is still there.
C9_CancelChangesOnlyTheCall ==
  [][\A c \in Callers :
       (CancelCtx(c) \/ ReturnCancelled(c)) =>
          /\ UNCHANGED <<loop, held, loopErr, egErr, egCancelled, cancelled,
                         main, watcher, produced, delivered>>
          /\ UNCHANGED <<streamsClosed, streamsCloses, streamErr, streamLock>>
          /\ UNCHANGED <<closer, done, doneCloses, sessClosed, sessCloses>>
          /\ \A d \in Callers \ {c} : pc'[d] = pc[d] /\ ctx'[d] = ctx[d]
          /\ \A d \in Callers \ {c} : \A k \in Kinds :
               (pc[d] = "select" /\ loop[k] = "send") =>
                  (pc'[d] = "select" /\ loop'[k] = "send"
                   /\ held'[k] = held[k] /\ ~streamsClosed')]_vars

\* A cancelled call has returned while another call is blocked, a Stream is
\* on offer and the multiplexer is running.
C9_Witness ==
  \E d \in Callers : \E k \in Kinds :
    /\ cancelOffer = {k}
    /\ pc[d] = "select"
    /\ \A j \in Kinds : loop[j] \in {"accept", "send"}
    /\ ~streamsClosed /\ streamErr = Nil /\ ~done

\* C10: once the intake is closed, a call with a live context returns
\* (nil, c.streamErr) with c.streamErr non-nil and the same for every call;
\* no return statement of AcceptStream yields (nil, nil).
C10_TerminalErrorReturned ==
  /\ [](streamsClosed => streamErr # Nil)
  /\ [](\A c \in Callers : pc[c] \in {"rlock", "read"} => streamsClosed)
  /\ [][streamsClosed => (streamsClosed' /\ streamErr' = streamErr)]_vars
  /\ [][\A c \in Callers :
          (streamsClosed /\ ctx[c] = "live" /\ CallEnds(c)) =>
             Returns(c, <<NilStream, streamErr>>)]_vars
  /\ [][\A c \in Callers : \A r \in {RetCancelled, RetClosed} \cup
                                    {RetStream(k) : k \in Offering} :
          Returns(c, r) => r # <<NilStream, Nil>>]_vars

\* Two calls have found the intake closed and are about to return the
\* recorded error.
C10_Witness ==
  /\ \A c \in Callers : pc[c] = "read" /\ ctx[c] = "live"
  /\ streamErr # Nil

\* C11: the close signal fires at most once however many Close/CloseWithError
\* calls are made: c.done is closed by the first call through c.closer and by
\* no other, so close(c.done) has run exactly once when the signal is set and
\* never otherwise, and a call made after the guard fired closes nothing.
C11_DoneClosedOnce ==
  /\ doneCloses <= 1
  /\ done <=> doneCloses = 1
  /\ closer <=> done
  /\ closerPc.idle < NumClosers => done

\* Two calls have passed c.closer.Do and c.done was closed once.
C11_Witness ==
  /\ closerPc.idle + 2 <= NumClosers
  /\ doneCloses = 1
  /\ done

\* The negotiation list the caller put into the Dialer's TLS configuration.
CallerProtos ==
  IF dialer.TLSConfig.isNil THEN <<>> ELSE dialer.TLSConfig.NextProtos

\* C12: a Dialer with no TLS configuration, or one with an empty
\* negotiation list, and an empty Protocol fails at configuration resolution
\* in every dial operation: once an operation was called on it the call has
\* panicked, the session establishment was never invoked and no Conn was
\* created.
C12_MisconfiguredDialerPanics ==
  (Len(CallerProtos) = 0 /\ dialer.Protocol = "") =>
    /\ dial.invoked = 0
    /\ dial.conns = 0
    /\ dial.pc \in {"idle", "panicked"}
    /\ dial.calls > 0 => dial.pc = "panicked"

\* ClientContext was called on a Dialer with an empty, non-nil TLS
\* configuration and no Protocol, and panicked.
C12_Witness ==
  /\ dialer = [TLSConfig |-> Config(<<>>), Protocol |-> ""]
  /\ dial.op = "ClientContext"
  /\ dial.pc = "panicked"

\* C13: the negotiation list handed to the session establishment is, when
\* Protocol is set, Protocol followed by the caller's list in its order (just
\* <<"h3-test">> for a Dialer with only Protocol "h3-test"), and the caller's
\* list itself when Protocol is empty.
C13_ProtocolPrepended ==
  dial.pc \in {"establishing", "failed", "connected"} =>
    /\ dialer.Protocol # "" =>
         /\ Len(dial.conf) = Len(CallerProtos) + 1
         /\ dial.conf[1] = dialer.Protocol
         /\ \A i \in 1..Len(CallerProtos) : dial.conf[i + 1] = CallerProtos[i]
    /\ dialer.Protocol = "" => dial.conf = CallerProtos
    /\ dialer = [TLSConfig |-> NilConfig, Protocol |-> "h3-test"] =>
         dial.conf = <<"h3-test">>

\* The establishment was invoked for a Dialer with Protocol "h3-test" and
\* the caller's list <<"h3", "h3-test">>.
C13_Witness ==
  /\ dial.pc = "establishing"
  /\ dialer.Protocol = "h3-test"
  /\ CallerProtos = <<"h3", "h3-test">>
  /\ dial.conf = <<"h3-test", "h3", "h3-test">>

\* C14: a NewStream call that fails returns the session's failure with a nil
\* stream and changes nothing else: the loops, the intake, the terminal
\* error, the close signal, the AcceptStream calls in progress and the
\* streams the session has opened are as before, so every later call finds
\* the state it would have found without the failed one.
C14_FailedNewStreamChangesNothing ==
  [][(opened'.calls = opened.calls + 1 /\ opened'.ret[2] # Nil) =>
       /\ opened'.ret = <<NilStream, OpenErr>>
       /\ opened'.streams = opened.streams
       /\ UNCHANGED <<connVars, dialer, dial>>]_vars

\* A first NewStream call failed and a second one then returned the first
\* stream of the session, on a Conn whose multiplexer is still running.
C14_Witness ==
  /\ opened.calls = 2
  /\ opened.streams = 1
  /\ opened.ret = <<newStream(Handle("out", 1), Handle("out", 1)), Nil>>
  /\ \A k \in Kinds : loop[k] \in {"accept", "send"}
  /\ ~streamsClosed
  /\ ~done
  /\ streamErr = Nil

\* C15: every Stream an AcceptStream call received has the kind of the loop
\* that accepted it: it wraps the handle that loop's session accept returned;
\* from the bidirectional loop that handle is both its send and its receive
\* side, from the unidirectional loop the send side is nil and the handle is
\* the receive side.
C15_StreamKindMatchesLoop ==
  \A k \in Kinds : \A i \in 1..Len(delivered[k]) :
    LET s == delivered[k][i]
    IN /\ s.recv = produced[k][i]
       /\ s.recv.kind = k
       /\ s.recv # NilHandle
       /\ k = "bidi" => s.send = s.recv
       /\ k = "uni" => s.send = NilHandle

\* AcceptStream calls have received a stream of each kind.
C15_Witness ==
  /\ Len(delivered["bidi"]) > 0
  /\ Len(delivered["uni"]) > 0
  /\ delivered["uni"][1] = [send |-> NilHandle, recv |-> Handle("uni", 1)]

\* C16: c.streams is closed at most once, and only when both accept loops
\* have returned; no loop is sending, or about to send, a Stream on c.streams
\* once it is closed.
C16_IntakeClosedOnceAfterLoops ==
  /\ streamsCloses <= 1
  /\ streamsClosed <=> streamsCloses = 1
  /\ streamsClosed => \A k \in Kinds : loop[k] = "done"
  /\ \A k \in Kinds : loop[k] \in {"accept", "send"} => ~streamsClosed

\* c.streams was closed, once, after a loop had handed a Stream over.
C16_Witness ==
  /\ streamsClosed
  /\ streamsCloses = 1
  /\ \E k \in Kinds : Len(delivered[k]) > 0
  /\ \A k \in Kinds : loop[k] = "done"

\* C17 as stated: after Close/CloseWithError has fired the close signal, or
\* after a loop's accept has failed, the multiplexer eventually is Closed
\* (both loops returned, c.streams closed), whether or not any AcceptStream
\* call is made: a loop blocked in its send is released by the cancellation.
C17_Claim ==
  (done \/ \E k \in Kinds : loop[k] \in {"failed", "done"})
    ~> (streamsClosed /\ \A k \in Kinds : loop[k] = "done")

\* C18: c.streamErr is written at most once, by acceptStreams after Wait
\* and under the write lock, while c.streams is still open; when c.streams
\* is closed the write is complete and the lock released. An AcceptStream
\* call is on its terminal path only after c.streams was closed, so it reads
\* the slot after the write and returns it only with c.streams closed. (A
\* call that returns its own context's error is not on that path, also when
\* that error and the recorded one are both context.Canceled.)
C18_ErrorWrittenOnceBeforeClose ==
  /\ [][streamErr' # streamErr =>
          /\ streamErr = Nil
          /\ streamErr' = egErr
          /\ streamErr' # Nil
          /\ main = "write" /\ main' = "unlock"
          /\ streamLock.writer /\ streamLock.readers = 0
          /\ ~streamsClosed /\ ~streamsClosed']_vars
  /\ [](streamsClosed =>
          /\ main = "done"
          /\ ~streamLock.writer
          /\ streamErr = egErr)
  /\ [](\A c \in Callers :
          /\ pc[c] \in {"rlock", "read"} => streamsClosed
          /\ pc[c] = "read" => (streamLock.readers > 0 /\ ~streamLock.writer))
  /\ [][\A c \in Callers : ReadReturn(c) =>
          (streamsClosed /\ main = "done" /\ streamErr = egErr)]_vars

\* The error of the unidirectional loop was written and c.streams closed
\* after it; a call holds the read lock and another has yet to take it.
C18_Witness ==
  /\ streamsClosed
  /\ streamErr = SessErr("uni")
  /\ \E c \in Callers : pc[c] = "read"
  /\ \E c \in Callers : pc[c] = "rlock"

\* Streams of kind k the session's accept returned and no AcceptStream call
\* has received.
Undelivered(k) == Len(produced[k]) - Len(delivered[k])

\* C19: each loop has at most one accepted stream that no AcceptStream call
\* has received, namely the one it is sending; while it is in (or past) its
\* session accept it has none, and its accept returns a further stream only
\* then. So at most two accepted streams, one of each kind, are undelivered.
C19_Backpressure ==
  /\ [](\A k \in Kinds :
          /\ Len(delivered[k]) <= Len(produced[k])
          /\ Undelivered(k) <= 1
          /\ loop[k] = "send" <=> Undelivered(k) = 1
          /\ loop[k] = "send" =>
               held[k] = Wrap(k, produced[k][Len(produced[k])]))
  /\ [](Len(produced["bidi"]) + Len(produced["uni"])
          <= Len(delivered["bidi"]) + Len(delivered["uni"]) + 2)
  /\ [][\A k \in Kinds :
          Len(produced'[k]) > Len(produced[k]) =>
            (Undelivered(k) = 0 /\ loop[k] = "accept")]_vars

\* Both loops hold an undelivered stream, the bidirectional one its second.
C19_Witness ==
  /\ \A k \in Kinds : loop[k] = "send"
  /\ Len(produced["bidi"]) = 2
  /\ Len(delivered["bidi"]) = 1
  /\ Len(delivered["uni"]) = 0

\* C20 as stated: once c.streams is closed no task of the Conn is left
\* blocked: both loops and acceptStreams have returned, and the task of lines
\* 48-51 has returned or, c.done being closed, is free to; this whether or
\* not Close/CloseWithError was ever called.
C20_Claim ==
  streamsClosed =>
    /\ \A k \in Kinds : loop[k] = "done"
    /\ main = "done"
    /\ watcher = "exit" \/ done
====
